---------------------------- MODULE Spec2Model ----------------------------
(***************************************************************************)
(* A model of src/main.py: the polling bot that logs in to the brokerage   *)
(* API, fetches the last traded price of NIFTY 50 and NIFTY BANK every     *)
(* POLL_INTERVAL seconds and posts a message to a Telegram chat, next to   *)
(* a health-check endpoint that reports whether the bot thread is alive.   *)
(*                                                                         *)
(* The bot thread is modelled statement group by statement group (pc);     *)
(* the answers of the outside world (the SDK, the REST endpoint, the       *)
(* Telegram API) are inputs chosen with \E from the sets below.            *)
(***************************************************************************)
EXTENDS Integers, Sequences, FiniteSets, TLC

VARIABLES
    env,          \* the six required environment values (lines 23-28)
    pollInterval, \* POLL_INTERVAL (line 29)
    sdkAvailable, \* SmartConnect is not None (lines 10-17)
    pc,           \* position of the bot thread
    session,      \* what login_and_setup returned, NoSession before
    result,       \* the dict `result` of get_market_data_angel
    prices,       \* the local `prices` of bot_loop
    text,         \* the argument `text` of the pending tele_send_http call
    after,        \* where bot_loop continues when tele_send_http returns
    sendResult,   \* the value the last tele_send_http call returned
    inflight,     \* number of POSTs to the Telegram API in progress
    slept,        \* time units elapsed inside the current time.sleep
    health,       \* the last answer of the health-check endpoint
    log,          \* history: events of the current phase (startup or tick)
    calls,        \* history: requests of the current get_market_data_angel
    sdkGot,       \* history: names the SDK strategy stored in this call
    restGot,      \* history: names the REST strategy stored in this call
    sdkRaised,    \* history: the SDK strategy raised in this call
    restRaised,   \* history: the REST strategy raised in this call
    loginAnswer,  \* history: what the login calls answered at startup
    teleAnswer    \* history: what the Telegram API answered in this phase

vars == <<env, pollInterval, sdkAvailable, pc, session, result, prices, text,
          after, sendResult, inflight, slept, health, log, calls, sdkGot,
          restGot, sdkRaised, restRaised, loginAnswer, teleAnswer>>

---------------------------------------------------------------------------
(* Bounds of the model *)

\* POLL_INTERVAL is drawn from 0..MaxPollInterval
MaxPollInterval == 2
\* prices are -PriceUnit, 0, PriceUnit, ..., MaxPrice * PriceUnit (in paise)
MaxPrice == 2
PriceUnit == 75

---------------------------------------------------------------------------
(* Values *)

EnvNames == {"API_KEY", "CLIENT_ID", "PASSWORD", "TOTP_SECRET",
             "TELE_TOKEN", "TELE_CHAT_ID"}

\* os.getenv gives None (unset), '' (empty) or a non-empty string
EnvValues == {"unset", "empty", "set"}

Names == <<"NIFTY 50", "NIFTY BANK">>

NameSet == {Names[i] : i \in 1..Len(Names)}

\* a last traded price, in paise; the exchange can send any number
Prices == {k * PriceUnit : k \in (-1)..MaxPrice}

NoSession == [logged |-> FALSE, getMarketData |-> FALSE, feedToken |-> FALSE]

EmptyDict == [n \in {} |-> 0]

\* a Python value that is None or a dict from names to floats
NoneValue == [isNone |-> TRUE, dict |-> EmptyDict]

Dict(d) == [isNone |-> FALSE, dict |-> d]

Outcome(kind) == [kind |-> kind, ltp |-> 0]

Quote(p) == [kind |-> "ltp", ltp |-> p]

\* what smartApi.getMarketData can answer (lines 88-94, 97-103)
SdkResponses ==
    {Outcome(k) : k \in {"raise", "falsy", "status_false", "no_fetched",
                         "data_null", "ltp_absent", "ltp_null"}}
    \cup {Quote(p) : p \in Prices}

\* what requests.post to the quote endpoint can answer (lines 131-145)
RestResponses ==
    {Outcome(k) : k \in {"raise", "non200", "bad_json", "status_false",
                         "no_fetched", "data_null", "ltp_absent", "ltp_null"}}
    \cup {Quote(p) : p \in Prices}

\* what the Telegram API can answer to requests.post (lines 48-55)
TeleResponses == {"200", "non200", "raise"}

\* what pyotp and generateSession can do (lines 60-67)
LoginResponses == {"totp_raise", "raise", "falsy", "status_false",
                   "no_tokens", "ok"}

TokenResponses == {"ok", "raise"}

NoLogin == [session |-> "none", feed |-> "none", refresh |-> "none"]

NoHealth == [asked |-> FALSE, bot_thread_alive |-> FALSE, poll_interval |-> 0,
             smartapi_sdk_available |-> FALSE]

---------------------------------------------------------------------------
(* Pure parts of the code *)

\* a check for None alone, which lets '' through
AllRequired_NotNone(e) == \A n \in EnvNames : e[n] # "unset"

\* not all(REQUIRED) fails on None and on '' (line 178)
AllRequired(e) == \A n \in EnvNames : e[n] = "set"

\* login_and_setup returns instead of raising (lines 58-67): the SDK was
\* imported, the one-time code was computed, generateSession answered a
\* non-empty dict whose status is not False and that holds both tokens
LoginSucceeds(sdk, r) == sdk /\ r = "ok"

\* getfeedToken and generateToken called without their try/except
LoginReturns_TokensFatal(sdk, r, feed, refresh) ==
    LoginSucceeds(sdk, r) /\ feed = "ok" /\ refresh = "ok"

\* login_and_setup returns (lines 57-76): what getfeedToken and
\* generateToken raise is swallowed at lines 70 and 74
LoginReturns(sdk, r, feed, refresh) == LoginSucceeds(sdk, r)

\* every answer of the API taken for a delivery
TeleReturn_AnyAnswer(o) == o # "raise"

\* tele_send_http: True only after a POST that answered 200 (lines 48-55)
TeleReturn(o) == o = "200"

\* the request, or the handling of its answer, raises: requests.post or
\* getMarketData raise, response.json() raises, data is null so that
\* .get('fetched') raises, or float() rejects the ltp field
Raises(r) == r.kind \in {"raise", "bad_json", "data_null", "ltp_null"}

\* the answer reaches the assignment result[name] = float(...): status is
\* truthy and fetched is a non-empty list (lines 91-94, 140-145)
Stores(r) == r.kind \in {"ltp", "ltp_absent"}

\* float(fetched[0].get('ltp', 0)) (lines 94, 103, 145, 169)
Ltp(r) == IF r.kind = "ltp_absent" THEN 0 ELSE r.ltp

\* result[name] = value
Put(d, name, value) ==
    [n \in DOMAIN d \cup {name} |-> IF n = name THEN value ELSE d[n]]

\* result after one answer was handled without raising
Handled(d, name, r) == IF Stores(r) THEN Put(d, name, Ltp(r)) ELSE d

\* `if result:` (line 105): a non-empty dict
SdkWins(d) == DOMAIN d # {}

\* `return result`, without `else None`
RestReturn_Raw(d) == Dict(d)

\* `return result if result else None` (line 171)
RestReturn(d) == IF DOMAIN d # {} THEN Dict(d) ELSE NoneValue

\* `if prices:` alone, without any(...)
HasData_NoAny(p) == ~p.isNone /\ DOMAIN p.dict # {}

\* `prices and any(prices.values())` (line 197); 0.0 is falsy
HasData(p) == /\ ~p.isNone
              /\ DOMAIN p.dict # {}
              /\ \E n \in DOMAIN p.dict : p.dict[n] # 0

\* prices.get(name, 0) (line 202)
Get(d, name) == IF name \in DOMAIN d THEN d[name] ELSE 0

\* `if ltp is not None and ltp >= 0`
Shown_NotNone(ltp) == ltp >= 0

\* `if ltp and ltp > 0` (line 203)
Shown(ltp) == ltp # 0 /\ ltp > 0

\* f"{ltp:,.2f}": rupees and two digits of paise (line 204)
Fmt2f(ltp) == [rupees |-> ltp \div 100, paise |-> ltp % 100]

\* one line of the update message (lines 202-206)
MessageLine(d, name) ==
    LET ltp == Get(d, name)
    IN  IF Shown(ltp)
        THEN [name |-> name, unavailable |-> FALSE, amount |-> Fmt2f(ltp)]
        ELSE [name |-> name, unavailable |-> TRUE, amount |-> Fmt2f(0)]

\* the update message without its timestamp (lines 198-211)
UpdateText(d) ==
    [kind |-> "update",
     lines |-> [i \in 1..Len(Names) |-> MessageLine(d, Names[i])]]

PlainText(kind) == [kind |-> kind, lines |-> <<>>]

LoginFailedText == PlainText("login_failed")    \* line 187

StartedText == PlainText("started")             \* line 190

UnableText == PlainText("unable")               \* line 216

ErrorText == PlainText("error")                 \* line 220

\* the text of one tick (lines 197-220); raised: the try body raised
TickText(p, raised) ==
    IF raised THEN ErrorText
    ELSE IF HasData(p) THEN UpdateText(p.dict)
    ELSE UnableText

\* bot_loop returns when a required value is missing (lines 178-180)
AfterStart(e) == IF AllRequired(e) THEN "login" ELSE "done"

\* the `return` of line 188 left out
AfterLogin_NoReturn(ok) == "tick"

\* bot_loop returns after a failed login (lines 182-190)
AfterLogin(ok) == IF ok THEN "tick" ELSE "done"

\* the SDK strategy returns its result or falls through (lines 105-110)
AfterSdk(d) == IF SdkWins(d) THEN "format" ELSE "rest_nifty"

\* a loop that logs in again after a tick whose body raised
AfterTick_Relogin(raised) == IF raised THEN "login" ELSE "sleep"

\* a handler that re-raises ends the thread
AfterTick_Reraise(raised) == IF raised THEN "done" ELSE "sleep"

\* the handler of line 218 does not re-raise: line 222 follows either way
AfterTick(raised) == "sleep"

\* the thread object taken for its liveness
ThreadAlive_Always(at) == TRUE

\* thread.is_alive() (line 231)
ThreadAlive(at) == at # "done"

\* a sleep that returns one time unit early
SleepOver_Early(elapsed, interval) == elapsed + 1 >= interval

\* time.sleep(POLL_INTERVAL) returns (line 222)
SleepOver(elapsed, interval) == elapsed >= interval

---------------------------------------------------------------------------
(* The state after the module was imported and the thread started *)

NoText == PlainText("none")

Init ==
    /\ env \in [EnvNames -> EnvValues]
    /\ pollInterval \in 0..MaxPollInterval
    /\ sdkAvailable \in BOOLEAN
    /\ pc = "start"
    /\ session = NoSession
    /\ result = EmptyDict
    /\ prices = NoneValue
    /\ text = NoText
    /\ after = "done"
    /\ sendResult = FALSE
    /\ inflight = 0
    /\ slept = 0
    /\ health = NoHealth
    /\ log = <<>>
    /\ calls = <<>>
    /\ sdkGot = {}
    /\ restGot = {}
    /\ sdkRaised = FALSE
    /\ restRaised = FALSE
    /\ loginAnswer = NoLogin
    /\ teleAnswer = "none"

config == <<env, pollInterval, sdkAvailable>>

quoteHistory == <<calls, sdkGot, restGot, sdkRaised, restRaised>>

callHistory == <<loginAnswer, teleAnswer>>

---------------------------------------------------------------------------
(* bot_loop *)

\* lines 177-180
BotLoopStart ==
    /\ pc = "start"
    /\ pc' = AfterStart(env)
    /\ UNCHANGED <<config, session, result, prices, text, after, sendResult,
                   inflight, slept, health, log, quoteHistory, callHistory>>

\* lines 182-190 with login_and_setup, lines 57-76
LoginAndSetup(r, feed, refresh, hasMethod) ==
    /\ pc = "login"
    /\ log' = Append(log, "login")
    /\ IF LoginReturns(sdkAvailable, r, feed, refresh)
       THEN /\ session' = [logged |-> TRUE, getMarketData |-> hasMethod,
                           feedToken |-> (feed = "ok")]
            /\ text' = StartedText
            /\ loginAnswer' = [session |-> r, feed |-> feed,
                               refresh |-> refresh]
       ELSE /\ session' = NoSession
            /\ text' = LoginFailedText
            /\ loginAnswer' = [session |-> IF sdkAvailable THEN r
                                           ELSE "sdk_missing",
                               feed |-> "none", refresh |-> "none"]
    /\ after' = AfterLogin(LoginReturns(sdkAvailable, r, feed, refresh))
    /\ pc' = "tele_call"
    /\ UNCHANGED <<config, result, prices, sendResult, inflight, slept,
                   health, quoteHistory, teleAnswer>>

\* tele_send_http up to the POST, lines 35-48
TeleSendBegin ==
    /\ pc = "tele_call"
    /\ log' = Append(log, "send")
    /\ IF env["TELE_TOKEN"] # "set"
       THEN /\ sendResult' = FALSE
            /\ pc' = after
            /\ UNCHANGED inflight
       ELSE /\ inflight' = inflight + 1
            /\ pc' = "tele_post"
            /\ UNCHANGED sendResult
    /\ UNCHANGED <<config, session, result, prices, text, after, slept,
                   health, quoteHistory, callHistory>>

\* tele_send_http from the answer of the POST, lines 48-55
TeleSendEnd(o) ==
    /\ pc = "tele_post"
    /\ sendResult' = TeleReturn(o)
    /\ teleAnswer' = o
    /\ inflight' = inflight - 1
    /\ log' = Append(log, "send_end")
    /\ pc' = after
    /\ UNCHANGED <<config, session, result, prices, text, after, slept,
                   health, quoteHistory, loginAnswer>>

\* the top of the loop and the entry of get_market_data_angel, lines
\* 192-195 and 78-85. prices and text are not read again before lines 195
\* and 211 assign them, so the model forgets them here; the histories of
\* the phase that ended are cleared
TickBegin ==
    /\ pc = "tick"
    /\ result' = EmptyDict
    /\ prices' = NoneValue
    /\ text' = NoText
    /\ log' = <<"quote_begin">>
    /\ calls' = <<>>
    /\ sdkGot' = {}
    /\ restGot' = {}
    /\ sdkRaised' = FALSE
    /\ restRaised' = FALSE
    /\ sendResult' = FALSE
    /\ teleAnswer' = "none"
    /\ loginAnswer' = NoLogin
    /\ pc' = IF session.getMarketData THEN "sdk_nifty" ELSE "rest_nifty"
    /\ UNCHANGED <<config, session, after, inflight, slept, health>>

\* lines 88-94, and line 107 when the request raises
SdkNifty(r) ==
    /\ pc = "sdk_nifty"
    /\ calls' = Append(calls, "sdk")
    /\ IF Raises(r)
       THEN /\ sdkRaised' = TRUE
            /\ pc' = "rest_nifty"
            /\ UNCHANGED <<result, sdkGot>>
       ELSE /\ result' = Handled(result, "NIFTY 50", r)
            /\ sdkGot' = IF Stores(r) THEN sdkGot \cup {"NIFTY 50"} ELSE sdkGot
            /\ pc' = "sdk_bank"
            /\ UNCHANGED sdkRaised
    /\ UNCHANGED <<config, session, prices, text, after, sendResult,
                   inflight, slept, health, log, restGot, restRaised,
                   callHistory>>

\* lines 97-108: the second SDK request and the end of the SDK strategy;
\* the local result ends with the call that returns it
SdkBank(r) ==
    /\ pc = "sdk_bank"
    /\ calls' = Append(calls, "sdk")
    /\ IF Raises(r)
       THEN /\ sdkRaised' = TRUE
            /\ pc' = "rest_nifty"
            /\ UNCHANGED <<result, sdkGot, prices, log>>
       ELSE /\ sdkGot' = IF Stores(r) THEN sdkGot \cup {"NIFTY BANK"}
                                      ELSE sdkGot
            /\ UNCHANGED sdkRaised
            /\ pc' = AfterSdk(Handled(result, "NIFTY BANK", r))
            /\ IF AfterSdk(Handled(result, "NIFTY BANK", r)) = "format"
               THEN /\ prices' = Dict(Handled(result, "NIFTY BANK", r))
                    /\ result' = EmptyDict
                    /\ log' = Append(log, "quote_end")
               ELSE /\ result' = Handled(result, "NIFTY BANK", r)
                    /\ UNCHANGED <<prices, log>>
    /\ UNCHANGED <<config, session, text, after, sendResult, inflight,
                   slept, health, restGot, restRaised, callHistory>>

\* lines 110-145, and lines 173-175 when the request raises
RestNifty(r) ==
    /\ pc = "rest_nifty"
    /\ calls' = Append(calls, "rest")
    /\ IF Raises(r)
       THEN /\ prices' = NoneValue
            /\ result' = EmptyDict
            /\ restRaised' = TRUE
            /\ pc' = "format"
            /\ log' = Append(log, "quote_end")
            /\ UNCHANGED restGot
       ELSE /\ result' = Handled(result, "NIFTY 50", r)
            /\ restGot' = IF Stores(r) THEN restGot \cup {"NIFTY 50"}
                                       ELSE restGot
            /\ pc' = "rest_bank"
            /\ UNCHANGED <<prices, restRaised, log>>
    /\ UNCHANGED <<config, session, text, after, sendResult, inflight,
                   slept, health, sdkGot, sdkRaised, callHistory>>

\* lines 147-171, and lines 173-175 when the request raises
RestBank(r) ==
    /\ pc = "rest_bank"
    /\ calls' = Append(calls, "rest")
    /\ log' = Append(log, "quote_end")
    /\ pc' = "format"
    /\ result' = EmptyDict
    /\ IF Raises(r)
       THEN /\ prices' = NoneValue
            /\ restRaised' = TRUE
            /\ UNCHANGED restGot
       ELSE /\ restGot' = IF Stores(r) THEN restGot \cup {"NIFTY BANK"}
                                       ELSE restGot
            /\ prices' = RestReturn(Handled(result, "NIFTY BANK", r))
            /\ UNCHANGED restRaised
    /\ UNCHANGED <<config, session, text, after, sendResult, inflight,
                   slept, health, sdkGot, sdkRaised, callHistory>>

\* lines 197-220 up to the call of tele_send_http; raised: a statement of
\* the try body raised (an allocation failing, say), so that the handler of
\* line 218 builds the text. The histories of the call of line 195 are
\* cleared
Format(raised) ==
    /\ pc = "format"
    /\ text' = TickText(prices, raised)
    /\ after' = AfterTick(raised)
    /\ pc' = "tele_call"
    /\ log' = IF raised THEN Append(log, "except") ELSE log
    /\ calls' = <<>>
    /\ sdkGot' = {}
    /\ restGot' = {}
    /\ sdkRaised' = FALSE
    /\ restRaised' = FALSE
    /\ UNCHANGED <<config, session, result, prices, sendResult, inflight,
                   slept, health, callHistory>>

\* one time unit passes inside time.sleep(POLL_INTERVAL), line 222
SleepStep ==
    /\ pc = "sleep"
    /\ ~SleepOver(slept, pollInterval)
    /\ slept' = slept + 1
    /\ UNCHANGED <<config, pc, session, result, prices, text, after,
                   sendResult, inflight, health, log, quoteHistory,
                   callHistory>>

\* time.sleep returns and the loop starts over, lines 222 and 192
SleepReturn ==
    /\ pc = "sleep"
    /\ SleepOver(slept, pollInterval)
    /\ slept' = 0
    /\ pc' = "tick"
    /\ log' = Append(log, "slept")
    /\ UNCHANGED <<config, session, result, prices, text, after, sendResult,
                   inflight, health, quoteHistory, callHistory>>

---------------------------------------------------------------------------
(* The health check, on the server's thread *)

\* lines 228-235
Index ==
    /\ health' = [asked |-> TRUE,
                  bot_thread_alive |-> ThreadAlive(pc),
                  poll_interval |-> pollInterval,
                  smartapi_sdk_available |-> sdkAvailable]
    /\ UNCHANGED <<config, pc, session, result, prices, text, after,
                   sendResult, inflight, slept, log, quoteHistory,
                   callHistory>>

---------------------------------------------------------------------------
(* Specifications *)

\* the steps of the bot thread
BotNext ==
    \/ BotLoopStart
    \/ \E r \in LoginResponses, feed \in TokenResponses,
          refresh \in TokenResponses, hasMethod \in BOOLEAN :
            LoginAndSetup(r, feed, refresh, hasMethod)
    \/ TeleSendBegin
    \/ \E o \in TeleResponses : TeleSendEnd(o)
    \/ TickBegin
    \/ \E r \in SdkResponses : SdkNifty(r)
    \/ \E r \in SdkResponses : SdkBank(r)
    \/ \E r \in RestResponses : RestNifty(r)
    \/ \E r \in RestResponses : RestBank(r)
    \/ \E raised \in BOOLEAN : Format(raised)
    \/ SleepStep
    \/ SleepReturn

Next == BotNext \/ Index

Spec == Init /\ [][Next]_vars

\* the bot thread is scheduled as long as it can run, and every call it
\* waits for returns (each request carries timeout=10)
FairSpec == Spec /\ WF_vars(BotNext)

---------------------------------------------------------------------------
(* Properties *)

Range(seq) == {seq[i] : i \in 1..Len(seq)}

Last(seq) == seq[Len(seq)]

FetchPcs == {"sdk_nifty", "sdk_bank", "rest_nifty", "rest_bank"}

SendPcs == {"tele_call", "tele_post"}

\* login_and_setup was called and raised: the SDK is missing, or pyotp or
\* generateSession raised, or the answer was falsy, had status False or
\* held no tokens
LoginFailed == loginAnswer.session \notin {"none", "ok"}

\* the tick's message is with the Telegram API and no handler built it
TickMessagePosted ==
    pc = "tele_post" /\ after = "sleep" /\ "except" \notin Range(log)

\* the price of Names[i] is missing from the mapping, or zero
MissingOrZero(d, i) == Names[i] \notin DOMAIN d \/ d[Names[i]] = 0

UnavailableLine(i) ==
    [name |-> Names[i], unavailable |-> TRUE,
     amount |-> [rupees |-> 0, paise |-> 0]]

\* C1: after a failed login bot_loop only sends the login-failure message,
\* once, and returns: at the end the phase holds exactly one login, one
\* send and its end, there is no session, and the thread stays ended, so
\* no start message, no quote retrieval and no tick follow.
C1_LoginFailureIsTerminal ==
    /\ [](LoginFailed =>
            /\ pc \in SendPcs \cup {"done"}
            /\ after = "done"
            /\ text = LoginFailedText
            /\ ~session.logged
            /\ calls = <<>>
            /\ log \in {<<"login">>, <<"login", "send">>,
                        <<"login", "send", "send_end">>}
            /\ pc = "done" => log = <<"login", "send", "send_end">>)
    /\ [][pc = "done" => pc' = "done" /\ log' = log /\ calls' = calls]_vars

\* C1 witness: the thread has ended after generateSession answered status
\* False, with one notification attempt
C1_Witness ==
    /\ pc = "done"
    /\ loginAnswer.session = "status_false"
    /\ log = <<"login", "send", "send_end">>

\* C2: within one call the direct REST strategy is not invoked once the SDK
\* strategy has stored a price, and the value returned then is the SDK
\* strategy's own result.
C2_FirstStrategyWins ==
    sdkGot # {} =>
        /\ "rest" \notin Range(calls)
        /\ pc = "format" => ~prices.isNone /\ DOMAIN prices.dict = sdkGot

\* C3: when the SDK strategy raised, every price returned was stored by
\* the REST strategy; when the REST strategy raised, the call returns None.
C3_RaisingStrategyYieldsNoData ==
    pc = "format" =>
        /\ sdkRaised => DOMAIN prices.dict \subseteq restGot
        /\ restRaised => prices = NoneValue

\* C4: a call that tried the SDK strategy and returns without having tried
\* the REST strategy returns at least one price that is not zero.
C4_UnusableSdkResultFallsThrough ==
    (pc = "format" /\ "sdk" \in Range(calls) /\ "rest" \notin Range(calls))
        => \E n \in DOMAIN prices.dict : prices.dict[n] # 0

ZeroSwapped(d, n) ==
    IF n \in DOMAIN d
    THEN IF d[n] = 0 THEN [m \in DOMAIN d \ {n} |-> d[m]] ELSE d
    ELSE [m \in DOMAIN d \cup {n} |-> IF m = n THEN 0 ELSE d[m]]

\* C6: the text sent for a tick is the text the tick would send for the
\* mapping in which one instrument's zero price is missing, or its missing
\* price is zero.
C6_ZeroLooksMissing ==
    TickMessagePosted =>
        \A n \in NameSet :
            TickText(Dict(ZeroSwapped(prices.dict, n)), FALSE) = text

\* C6 witness: a message is sent for a mapping that holds a zero price
C6_Witness ==
    /\ TickMessagePosted
    /\ \E n \in DOMAIN prices.dict : prices.dict[n] = 0
    /\ \E n \in DOMAIN prices.dict : prices.dict[n] > 0

\* C7: tele_send_http returns to its caller with True exactly when the POST
\* answered 200 and False otherwise; a phase never holds a second send, and
\* from a tick's send the loop goes on to its sleep.
C7_SendNeverRaisesNorRetries ==
    /\ [](/\ (Len(log) > 0 /\ Last(log) = "send_end")
               => sendResult = (teleAnswer = "200")
          /\ teleAnswer \in {"non200", "raise"} => ~sendResult
          /\ env["TELE_TOKEN"] # "set" => ~sendResult /\ inflight = 0
          /\ Cardinality({i \in 1..Len(log) : log[i] = "send"}) <= 1)
    /\ [][(pc = "tele_post" /\ pc' # pc)
            => /\ pc' = after
               /\ log' = Append(log, "send_end")
               /\ after = "sleep" => pc' = "sleep"]_vars

\* C7 witness: the loop sleeps after a send that a non-200 answer failed
C7_Witness ==
    /\ pc = "sleep"
    /\ teleAnswer = "non200"
    /\ ~sendResult
    /\ Last(log) = "send_end"

\* C8: no send is in progress or done while a tick retrieves quotes, the
\* retrieval has ended when the tick's send starts, at most one send is in
\* progress, the sleep ends only after POLL_INTERVAL time units and after
\* the send has returned, and a retrieval starts only from there (or from
\* the start message, for the first tick).
C8_TickOrdering ==
    /\ [](inflight \in {0, 1})
    /\ [](pc \in FetchPcs =>
            /\ inflight = 0
            /\ log = <<"quote_begin">>)
    /\ []((pc \in SendPcs /\ after = "sleep") =>
            /\ log[1] = "quote_begin"
            /\ "quote_end" \in Range(log)
            /\ calls = <<>>)
    /\ [][(pc = "sleep" /\ pc' # pc)
            => /\ pc' = "tick"
               /\ slept = pollInterval
               /\ Last(log) = "send_end"
               /\ inflight = 0]_vars
    /\ [][(pc = "tick" /\ pc' # pc)
            => /\ pc' \in FetchPcs
               /\ inflight = 0
               /\ \/ log = <<"login", "send", "send_end">>
                  \/ /\ Len(log) >= 5
                     /\ SubSeq(log, Len(log) - 2, Len(log))
                            = <<"send", "send_end", "slept">>]_vars

\* C8 witness: a later tick is about to start after a sleep of a positive
\* interval
C8_Witness ==
    /\ pc = "tick"
    /\ pollInterval > 0
    /\ Last(log) = "slept"

\* bot_loop is past the start message, inside `while True`
InPolling ==
    /\ session.logged
    /\ \/ pc \in FetchPcs \cup {"tick", "format", "sleep"}
       \/ pc \in SendPcs /\ after = "sleep"

MissingEnv == \E n \in EnvNames : env[n] \in {"unset", "empty"}

\* C10: with a required value unset or empty there is never a login, a
\* notification attempt or a quote request, and the thread ends.
C10_MissingEnvNeverStarts ==
    /\ [](MissingEnv =>
            /\ pc \in {"start", "done"}
            /\ log = <<>>
            /\ calls = <<>>
            /\ inflight = 0
            /\ loginAnswer = NoLogin
            /\ teleAnswer = "none"
            /\ ~session.logged)
    /\ [][pc = "done" => pc' = "done"]_vars
    /\ MissingEnv ~> (pc = "done")

\* C10 witness: the thread has ended without a step, the token being empty
C10_Witness ==
    /\ pc = "done"
    /\ env["TELE_TOKEN"] = "empty"
    /\ \A n \in EnvNames \ {"TELE_TOKEN"} : env[n] = "set"
    /\ log = <<>>


\* a request of get_market_data_angel is pending or was made in this phase
QuoteActivity ==
    \/ pc \in FetchPcs \cup {"format"}
    \/ calls # <<>>
    \/ "quote_begin" \in Range(log)

\* C11: whenever a quote retrieval is under way or has been made, a login
\* has succeeded and left a session, with every required value set and the
\* SDK imported; without a session the thread is at its start, logging in,
\* sending the login-failure message or ended.
C11_SessionBeforeQuotes ==
    /\ QuoteActivity =>
          /\ session.logged
          /\ sdkAvailable
          /\ \A n \in EnvNames : env[n] = "set"
    /\ ~session.logged =>
          \/ pc \in {"start", "login", "done"}
          \/ pc \in SendPcs /\ after = "done" /\ LoginFailed

\* C11 witness: the second request of a retrieval is pending, with a session
C11_Witness ==
    /\ pc = "rest_bank"
    /\ calls = <<"rest">>
    /\ session.logged


\* C12: when get_market_data_angel returns from the request for NIFTY BANK,
\* whatever that request answered, a positive price already stored for
\* NIFTY 50 in this call is in the mapping returned, so that the tick's
\* message reports it.
C12_ObtainedPriceSurvivesFailure ==
    [][(pc \in {"sdk_bank", "rest_bank"} /\ pc' = "format")
        => \A n \in DOMAIN result :
              result[n] > 0 =>
                  /\ ~prices'.isNone
                  /\ n \in DOMAIN prices'.dict
                  /\ prices'.dict[n] = result[n]]_vars


\* C13: login_and_setup is called from the start of bot_loop only, at most
\* once, and the session it returned is never replaced: no step of a tick,
\* whatever the tick obtained, leads back to the login or changes the
\* session.
C13_LoginOnce ==
    /\ [](Cardinality({i \in 1..Len(log) : log[i] = "login"}) <= 1)
    /\ [](session.logged => pc \notin {"start", "login"})
    /\ [][pc' = "login" => pc \in {"start", "login"}]_vars
    /\ [][session' # session => pc = "login" /\ session = NoSession]_vars

\* C13 witness: the next tick is about to start, with the session of the
\* startup, after a tick that obtained no data
C13_Witness ==
    /\ pc = "tick"
    /\ Last(log) = "slept"
    /\ prices.isNone
    /\ text.kind = "unable"
    /\ session.logged


\* C14: when generateSession answered a session, login_and_setup returns
\* it whatever getfeedToken and generateToken did, with the feed token
\* absent when getfeedToken raised; bot_loop then sends the start message,
\* not the failure message, and goes on to the first tick. The login fails
\* exactly when the SDK is missing or generateSession gave no session.
C14_PartialLoginIsNotFatal ==
    /\ loginAnswer.session = "ok" =>
          /\ session.logged
          /\ session.feedToken = (loginAnswer.feed = "ok")
          /\ text = [kind |-> "started", lines |-> <<>>]
          /\ after = "tick"
          /\ pc \in SendPcs \cup {"tick"}
    /\ loginAnswer.session # "none" =>
          (session.logged <=> loginAnswer.session = "ok")

\* C14 witness: the first tick is about to start after a login in which
\* getfeedToken and generateToken both raised
C14_Witness ==
    /\ pc = "tick"
    /\ loginAnswer = [session |-> "ok", feed |-> "raise", refresh |-> "raise"]
    /\ session.logged
    /\ ~session.feedToken
    /\ log = <<"login", "send", "send_end">>


Count(seq, e) == Cardinality({i \in 1..Len(seq) : seq[i] = e})

\* a tick has sent its message and sleeps, or has slept
TickDone ==
    /\ Len(log) > 0
    /\ log[1] = "quote_begin"
    /\ pc \in {"sleep", "tick"}

\* the text a tick is due to send, given whether some price counts
DueText(raised, counts) ==
    IF raised THEN text = [kind |-> "error", lines |-> <<>>]
    ELSE IF counts THEN text.kind = "update"
    ELSE text = [kind |-> "unable", lines |-> <<>>]

\* C15 as claimed: a tick never holds a second notification attempt, and
\* when it sleeps it has made exactly one: the error message when its body
\* raised, else a price update when some price is positive, else the
\* 'Unable to fetch data' warning.
C15_OneAttemptPerTick ==
    /\ Count(log, "send") <= 1
    /\ TickDone =>
          /\ Count(log, "send") = 1
          /\ Count(log, "send_end") = 1
          /\ DueText("except" \in Range(log),
                     \E n \in DOMAIN prices.dict : prices.dict[n] > 0)

\* C15 as amended: the same, with the price update sent when some price is
\* not zero, and the warning when every price is zero or missing.
C15_OneAttemptPerTickNonZero ==
    /\ Count(log, "send") <= 1
    /\ TickDone =>
          /\ Count(log, "send") = 1
          /\ Count(log, "send_end") = 1
          /\ DueText("except" \in Range(log),
                     \E n \in DOMAIN prices.dict : prices.dict[n] # 0)

\* C15 witness: a tick sleeps after its one attempt, a price update
C15_Witness ==
    /\ pc = "sleep"
    /\ log = <<"quote_begin", "quote_end", "send", "send_end">>
    /\ text.kind = "update"
    /\ \E n \in DOMAIN prices.dict : prices.dict[n] > 0


\* C16: every request of get_market_data_angel leads to its next request
\* or to its return, never out of bot_loop's tick, and the value it
\* returns is None or a mapping from a non-empty set of the two names to
\* numbers.
C16_NoneOrNonEmptyMapping ==
    /\ [](\/ prices = [isNone |-> TRUE, dict |-> <<>>]
          \/ /\ ~prices.isNone
             /\ DOMAIN prices.dict # {}
             /\ DOMAIN prices.dict \subseteq {"NIFTY 50", "NIFTY BANK"}
             /\ \A n \in DOMAIN prices.dict : prices.dict[n] \in Int)
    /\ [][(pc \in FetchPcs) => (pc' \in FetchPcs \cup {"format"})]_vars

\* C16 witness: the call returns None after its four requests stored nothing
\* and none of them raised
C16_Witness ==
    /\ pc = "format"
    /\ calls = <<"sdk", "sdk", "rest", "rest">>
    /\ ~sdkRaised /\ ~restRaised
    /\ prices.isNone

\* the positions of a running bot_loop after its check of the environment
AlivePcs == {"login", "tick", "format", "sleep"} \cup SendPcs \cup FetchPcs

\* C17: the health check can answer in every state; an answer given while
\* bot_loop logs in, sends, retrieves or sleeps says the thread is alive, an
\* answer given after bot_loop returned says it is not, and answering
\* changes nothing but the answer.
C17_HealthReadsLiveness ==
    /\ [](ENABLED Index)
    /\ [][health' # health =>
            /\ health'.asked
            /\ pc \in AlivePcs => health'.bot_thread_alive
            /\ pc = "done" => ~health'.bot_thread_alive
            /\ UNCHANGED <<config, pc, session, result, prices, text, after,
                           sendResult, inflight, slept, log, quoteHistory,
                           callHistory>>]_vars

\* C17 witness: the health check has answered 'not alive' after a failed
\* login ended the thread
C17_Witness ==
    /\ pc = "done"
    /\ LoginFailed
    /\ health.asked
    /\ ~health.bot_thread_alive

=============================================================================
